---- MODULE Spec2Model ----
(***************************************************************************)
(* Model of the BMSAD actor-definition decoder                             *)
(* (mercury_engine_data_structures/formats/bmsad.py).                      *)
(*                                                                         *)
(* The decoder is a construct parser: a tree of Structs whose fields are   *)
(* parsed strictly in order over an immutable byte buffer.  The state is   *)
(* the buffer, the read cursor, the position of the BMSAD Struct in its    *)
(* field list, the fields decoded so far and the process-wide registries   *)
(* (type hierarchy, field schema table) the decoder consults.              *)
(***************************************************************************)
EXTENDS Integers, Sequences, FiniteSets, TLC

VARIABLES
    hierarchy,   \* type_lib: registered type name -> parent name (or None)
    fieldtypes,  \* bmsad.fieldtypes: schema name -> layout (a byte count here)
    buf,         \* the input buffer (bytes 0..255)
    pos,         \* the stream cursor, bytes consumed so far
    pc,          \* the next field of the BMSAD Struct, or "done" / "failed"
    ctx,         \* the BMSAD Struct's context: fields decoded so far
    err          \* the exception that aborted the parse

vars == <<hierarchy, fieldtypes, buf, pos, pc, ctx, err>>

(***************************************************************************)
(* Text.  A string is the sequence of its character codes; only letters    *)
(* occur in the names the model uses.                                      *)
(***************************************************************************)
Upper == <<"A","B","C","D","E","F","G","H","I","J","K","L","M",
           "N","O","P","Q","R","S","T","U","V","W","X","Y","Z">>
Lower == <<"a","b","c","d","e","f","g","h","i","j","k","l","m",
           "n","o","p","q","r","s","t","u","v","w","x","y","z">>

Ord(c) ==
    IF \E i \in 1..26 : Upper[i] = c
    THEN 64 + (CHOOSE i \in 1..26 : Upper[i] = c)
    ELSE 96 + (CHOOSE i \in 1..26 : Lower[i] = c)

Str(cs) == [i \in 1..Len(cs) |-> Ord(cs[i])]

\* Python's None, as returned for a type without a parent: no byte string.
None == <<-1>>

S_MSAD == Str(<<"M","S","A","D">>)
S_test == Str(<<"t","e","s","t">>)
S_CCharClass == Str(<<"C","C","h","a","r","C","l","a","s","s">>)
S_CActorDef == Str(<<"C","A","c","t","o","r","D","e","f">>)
S_CActorComponent ==
    Str(<<"C","A","c","t","o","r","C","o","m","p","o","n","e","n","t">>)
S_CActorComponentDef ==
    Str(<<"C","A","c","t","o","r","C","o","m","p","o","n","e","n","t","D","e","f">>)
S_CComponent == Str(<<"C","C","o","m","p","o","n","e","n","t">>)
S_CFXComponent == Str(<<"C","F","X","C","o","m","p","o","n","e","n","t">>)
S_CCollisionComponent ==
    Str(<<"C","C","o","l","l","i","s","i","o","n","C","o","m","p","o","n","e","n","t">>)
S_CGrabComponent == Str(<<"C","G","r","a","b","C","o","m","p","o","n","e","n","t">>)
S_CBillboardComponent ==
    Str(<<"C","B","i","l","l","b","o","a","r","d","C","o","m","p","o","n","e","n","t">>)
S_CSwarmControllerComponent ==
    Str(<<"C","S","w","a","r","m","C","o","n","t","r","o","l","l","e","r",
          "C","o","m","p","o","n","e","n","t">>)
S_CStandaloneFXComponent ==
    Str(<<"C","S","t","a","n","d","a","l","o","n","e","F","X",
          "C","o","m","p","o","n","e","n","t">>)
S_bool == Str(<<"b","o","o","l">>)
S_string == Str(<<"s","t","r","i","n","g">>)

(***************************************************************************)
(* Parse results.  A parse maps (buffer, offset) to a result: ok with the  *)
(* new offset and the value, or the exception raised, the offset the       *)
(* stream had reached and the name the message reports.                    *)
(***************************************************************************)
Ok(p, v) == [ok |-> TRUE, pos |-> p, val |-> v, err |-> "", subj |-> <<>>]
Fail(p, e, s) == [ok |-> FALSE, pos |-> p, val |-> <<>>, err |-> e, subj |-> s]

\* Results of calls that read no stream.
Ret(v) == [ok |-> TRUE, val |-> v, err |-> "", subj |-> <<>>]
Raise(e, s) == [ok |-> FALSE, val |-> <<>>, err |-> e, subj |-> s]

\* stream_read: n bytes or StreamError.
Bytes(n, b, p) ==
    IF p + n <= Len(b) THEN Ok(p + n, SubSeq(b, p + 1, p + n))
    ELSE Fail(Len(b), "StreamError", <<>>)

\* A 32-bit value is kept as its two 16-bit halves <<high, low>>.  As a
\* count: no buffer holds 2^31 items, so every larger count behaves as the
\* largest one that can be written.
ToNat(u) == IF u[1] < 32768 THEN u[1] * 65536 + u[2] ELSE 2147483647

\* A NUL-terminated string from offset p on; the value is the bytes before
\* the NUL.
RECURSIVE CStringFrom(_, _, _)
CStringFrom(b, p, acc) ==
    IF p >= Len(b) THEN Fail(Len(b), "StreamError", <<>>)
    ELSE IF b[p + 1] = 0 THEN Ok(p + 1, acc)
    ELSE CStringFrom(b, p + 1, Append(acc, b[p + 1]))

(***************************************************************************)
(* Constructs.  A construct is data: a descriptor that parse interprets.   *)
(***************************************************************************)
Byte == [k |-> "Byte"]
Int16ul == [k |-> "Int16ul"]
Int32ul == [k |-> "Int32ul"]
Float32l == [k |-> "Float32l"]
Flag == [k |-> "Flag"]
Pass == [k |-> "Pass"]
\* Char = construct.PaddedString(1, 'ascii')
Char == [k |-> "PaddedString1"]
Array(n, subcon) == [k |-> "Array", n |-> n, sub |-> subcon]
PrefixedArray(subcon) == [k |-> "PrefixedArray", sub |-> subcon]
Struct(fields) == [k |-> "Struct", fields |-> fields]
Const(value, subcon) == [k |-> "Const", value |-> value, sub |-> subcon]
ConstBytes(value) == [k |-> "ConstBytes", value |-> value]
\* Struct(type=tag, value=Switch(this.type, cases, ErrorWithMessage(message)))
TaggedValue(tag, cases, message) ==
    [k |-> "TaggedValue", tag |-> tag, cases |-> cases, message |-> message]

\* common_types
StrId == [k |-> "CString"]
Float == Float32l
PropertyEnum == [k |-> "PropertyEnum"]
make_vector(subcon) == PrefixedArray(subcon)
DictElement(key, value) == [k |-> "DictElement", key |-> key, value |-> value]
DictAdapter(subcon) == [k |-> "DictAdapter", sub |-> subcon]
make_dict(value) == DictAdapter(make_vector(DictElement(StrId, value)))

\* DictAdapter._decode: the elements as an ordered map; a key met twice is
\* an error, never a replacement.  r is the result of the wrapped vector.
DictDecode(r) ==
    IF ~r.ok THEN r
    ELSE IF \E i, j \in 1..Len(r.val) : i < j /\ r.val[i].key = r.val[j].key
    THEN Fail(r.pos, "DuplicateKeyError",
              r.val[CHOOSE i \in 1..Len(r.val) :
                        \E j \in 1..Len(r.val) : i < j /\ r.val[i].key = r.val[j].key].key)
    ELSE r

\* Const: the value is read, then compared.
ConstCheck(value, r) ==
    IF ~r.ok THEN r
    ELSE IF r.val # value THEN Fail(r.pos, "ConstError", <<>>)
    ELSE r

RECURSIVE Parse(_, _, _), ParseFields(_, _, _, _, _), ParseArray(_, _, _, _, _)

\* Construct._parse
Parse(con, b, p) ==
    CASE con.k = "Byte" ->
           LET r == Bytes(1, b, p) IN IF r.ok THEN Ok(r.pos, r.val[1]) ELSE r
      [] con.k = "Int16ul" ->
           LET r == Bytes(2, b, p) IN
           IF r.ok THEN Ok(r.pos, r.val[1] + 256 * r.val[2]) ELSE r
      [] con.k = "Int32ul" ->
           LET r == Bytes(4, b, p) IN
           IF r.ok THEN Ok(r.pos, << r.val[3] + 256 * r.val[4], r.val[1] + 256 * r.val[2] >>)
           ELSE r
      [] con.k = "Float32l" -> Bytes(4, b, p)
      [] con.k = "PropertyEnum" -> Bytes(8, b, p)
      [] con.k = "Flag" ->
           LET r == Bytes(1, b, p) IN IF r.ok THEN Ok(r.pos, r.val[1] # 0) ELSE r
      [] con.k = "PaddedString1" ->
           LET r == Bytes(1, b, p) IN
           IF ~r.ok THEN r
           ELSE IF r.val[1] >= 128 THEN Fail(r.pos, "StringError", <<>>)
           ELSE Ok(r.pos, IF r.val[1] = 0 THEN <<>> ELSE r.val)
      [] con.k = "CString" -> CStringFrom(b, p, <<>>)
      [] con.k = "Pass" -> Ok(p, <<>>)
      [] con.k = "ConstBytes" -> ConstCheck(con.value, Bytes(Len(con.value), b, p))
      [] con.k = "Const" -> ConstCheck(con.value, Parse(con.sub, b, p))
      [] con.k = "Struct" -> ParseFields(con.fields, 1, b, p, <<>>)
      [] con.k = "Array" -> ParseArray(con.sub, con.n, b, p, <<>>)
      [] con.k = "PrefixedArray" ->
           LET c == Parse(Int32ul, b, p) IN
           IF c.ok THEN ParseArray(con.sub, ToNat(c.val), b, c.pos, <<>>) ELSE c
      [] con.k = "DictElement" ->
           LET r == ParseFields(<<con.key, con.value>>, 1, b, p, <<>>) IN
           IF r.ok THEN Ok(r.pos, [key |-> r.val[1], value |-> r.val[2]]) ELSE r
      [] con.k = "DictAdapter" -> DictDecode(Parse(con.sub, b, p))
      [] con.k = "TaggedValue" ->
           LET t == Parse(con.tag, b, p) IN
           IF ~t.ok THEN t
           ELSE IF \E i \in 1..Len(con.cases) : con.cases[i][1] = t.val
           THEN LET i == CHOOSE i \in 1..Len(con.cases) : con.cases[i][1] = t.val
                    v == Parse(con.cases[i][2], b, t.pos)
                IN IF v.ok THEN Ok(v.pos, [type |-> t.val, value |-> v.val]) ELSE v
           ELSE Fail(t.pos, con.message, t.val)

\* Struct._parse: the fields in order, the first failure aborts.
ParseFields(fields, i, b, p, acc) ==
    IF i > Len(fields) THEN Ok(p, acc)
    ELSE LET r == Parse(fields[i], b, p) IN
         IF r.ok THEN ParseFields(fields, i + 1, b, r.pos, Append(acc, r.val)) ELSE r

\* Array._parse: n elements in order, the first failure aborts.
ParseArray(subcon, n, b, p, acc) ==
    IF n = 0 THEN Ok(p, acc)
    ELSE LET r == Parse(subcon, b, p) IN
         IF r.ok THEN ParseArray(subcon, n - 1, b, r.pos, Append(acc, r.val)) ELSE r

(***************************************************************************)
(* type_lib: the type hierarchy registry.                                  *)
(***************************************************************************)
\* The interpreter's stack: a recursion deeper than this raises.
RecursionLimit == 9

\* get_parent_for: the registered parent, an error for an unregistered type.
get_parent_for(type_name) ==
    IF type_name \in DOMAIN hierarchy THEN Ret(hierarchy[type_name])
    ELSE Raise("UnknownTypeError", type_name)

\* is_child_of: the type itself or reachable through parent edges.
RECURSIVE is_child_of_from(_, _, _)
is_child_of_from(type_name, parent_name, depth) ==
    IF type_name = parent_name THEN Ret(TRUE)
    ELSE IF type_name = None THEN Ret(FALSE)
    ELSE IF depth = 0 THEN Raise("RecursionError", type_name)
    ELSE LET up == get_parent_for(type_name) IN
         IF ~up.ok THEN up
         ELSE is_child_of_from(up.val, parent_name, depth - 1)

is_child_of(type_name, parent_name) ==
    is_child_of_from(type_name, parent_name, RecursionLimit)

(***************************************************************************)
(* bmsad.py                                                                *)
(***************************************************************************)
FunctionArgument ==
    TaggedValue(Char,
        << <<Str(<<"s">>), StrId>>, <<Str(<<"f">>), Float>>,
           <<Str(<<"b">>), Flag>>, <<Str(<<"i">>), Int32ul>> >>,
        "Unknown argument type")

\* Mutant: params is the vector of elements, not wrapped in DictAdapter.
FunctionsNoDict ==
    make_vector(Struct(<<
        StrId, Int16ul, make_vector(DictElement(PropertyEnum, FunctionArgument)) >>))

Functions ==
    make_vector(Struct(<<
        StrId,                                                     \* name
        Int16ul,                                                   \* unk
        DictAdapter(make_vector(DictElement(PropertyEnum, FunctionArgument))) >>))

\* type_name[1:]
DropFirst(s) == IF s = <<>> THEN <<>> ELSE Tail(s)

\* Mutant: the candidate name keeps the type's first character.
RECURSIVE find_charclass_keep_first(_, _)
find_charclass_keep_first(type_name, depth) ==
    IF depth = 0 THEN Raise("RecursionError", type_name)
    ELSE IF type_name = S_CActorComponent THEN Ret(S_CActorComponentDef)
    ELSE IF type_name = None THEN Raise("TypeError", type_name)
    ELSE LET as_char == S_CCharClass \o type_name IN
         IF as_char \in DOMAIN fieldtypes THEN Ret(as_char)
         ELSE LET up == get_parent_for(type_name) IN
              IF ~up.ok THEN up
              ELSE find_charclass_keep_first(up.val, depth - 1)

\* Mutant: the candidate name is looked up before the root test.
RECURSIVE find_charclass_candidate_first(_, _)
find_charclass_candidate_first(type_name, depth) ==
    IF depth = 0 THEN Raise("RecursionError", type_name)
    ELSE IF type_name = None THEN Raise("TypeError", type_name)
    ELSE LET as_char == S_CCharClass \o DropFirst(type_name) IN
         IF as_char \in DOMAIN fieldtypes THEN Ret(as_char)
         ELSE IF type_name = S_CActorComponent THEN Ret(S_CActorComponentDef)
         ELSE LET up == get_parent_for(type_name) IN
              IF ~up.ok THEN up
              ELSE find_charclass_candidate_first(up.val, depth - 1)

\* find_charclass_for_type; depth is the room left on the interpreter's
\* stack, the recursion has no bound of its own.
RECURSIVE find_charclass_for_type(_, _)
find_charclass_for_type(type_name, depth) ==
    IF depth = 0 THEN Raise("RecursionError", type_name)
    ELSE IF type_name = S_CActorComponent THEN Ret(S_CActorComponentDef)
    ELSE IF type_name = None THEN Raise("TypeError", type_name)
    ELSE LET as_char == S_CCharClass \o DropFirst(type_name) IN
         IF as_char \in DOMAIN fieldtypes THEN Ret(as_char)
         ELSE LET up == get_parent_for(type_name) IN
              IF ~up.ok THEN up
              ELSE find_charclass_for_type(up.val, depth - 1)

(***************************************************************************)
(* Dependencies(): the layouts, keyed by base type in insertion order.     *)
(***************************************************************************)
FXLayout == make_vector(Struct(<<StrId, Int32ul, Int32ul, Byte>>))

CollisionLayout == Struct(<<StrId, Int16ul>>)

GrabLayout ==
    make_vector(Struct(<<
        StrId, StrId, StrId, Float32l, Byte, Byte, Int16ul,
        Array(2, Struct(<<Int16ul, Array(8, Float32l)>>)) >>))

BillboardLayout ==
    Struct(<<
        StrId,
        make_vector(Struct(<<StrId, Array(3, Int32ul), Byte, Array(2, Int32ul), Float32l>>)),
        StrId,
        make_vector(Struct(<<StrId, Byte, Array(4, Int32ul)>>)) >>)

SwarmLayout == Struct(<<make_vector(StrId), make_vector(StrId), make_vector(StrId)>>)

\* component_dependencies, in the order the dict was filled;
\* CStandaloneFXComponent is stored last and shares CFXComponent's layout.
component_dependencies ==
    << <<S_CFXComponent, FXLayout>>,
       <<S_CCollisionComponent, CollisionLayout>>,
       <<S_CGrabComponent, GrabLayout>>,
       <<S_CBillboardComponent, BillboardLayout>>,
       <<S_CSwarmControllerComponent, SwarmLayout>>,
       <<S_CStandaloneFXComponent, FXLayout>> >>

\* component_type(this): the first key the type is a child of, else None.
RECURSIVE component_type_from(_, _)
component_type_from(type_name, i) ==
    IF i > Len(component_dependencies) THEN Ret(None)
    ELSE LET c == is_child_of(type_name, component_dependencies[i][1]) IN
         IF ~c.ok THEN c
         ELSE IF c.val THEN Ret(component_dependencies[i][1])
         ELSE component_type_from(type_name, i + 1)

\* Mutant: the keys are scanned from the last to the first.
RECURSIVE component_type_backwards_from(_, _)
component_type_backwards_from(type_name, i) ==
    IF i < 1 THEN Ret(None)
    ELSE LET c == is_child_of(type_name, component_dependencies[i][1]) IN
         IF ~c.ok THEN c
         ELSE IF c.val THEN Ret(component_dependencies[i][1])
         ELSE component_type_backwards_from(type_name, i - 1)

component_type_backwards(type_name) ==
    component_type_backwards_from(type_name, Len(component_dependencies))

component_type(type_name) == component_type_from(type_name, 1)

\* The construct stored under a key; the Switch has no default, so a key
\* that is not in the dict parses nothing.
DependencyCase(key) ==
    IF \E i \in 1..Len(component_dependencies) : component_dependencies[i][1] = key
    THEN component_dependencies[
             CHOOSE i \in 1..Len(component_dependencies) :
                 component_dependencies[i][1] = key][2]
    ELSE Pass

\* Switch(component_type, component_dependencies)
Dependencies(type_name, b, p) ==
    LET k == component_type(type_name) IN
    IF ~k.ok THEN Fail(p, k.err, k.subj)
    ELSE LET r == Parse(DependencyCase(k.val), b, p) IN
         IF ~r.ok THEN r
         ELSE Ok(r.pos, [key |-> k.val, layout |-> DependencyCase(k.val), value |-> r.val])

(***************************************************************************)
(* Component                                                               *)
(***************************************************************************)
\* PrefixedAllowZeroLen, the length prefix and the block it frames.
PrefixedBlock(b, p) ==
    LET n == Parse(Int32ul, b, p) IN
    IF ~n.ok THEN n
    ELSE LET data == Bytes(ToNat(n.val), b, n.pos) IN
         IF ~data.ok THEN data
         ELSE Ok(data.pos, [len |-> ToNat(n.val), data |-> data.val])

\* PrefixedAllowZeroLen, the framing: a block of length zero holds nothing
\* and the subcon is not run; otherwise r, the subcon's parse of the block
\* as a stream of its own, must consume the block exactly.
PrefixedAllowZeroLen(blk, r) ==
    IF ~blk.ok THEN blk
    ELSE IF blk.val.len = 0 THEN Ok(blk.pos, [len |-> 0, body |-> <<>>])
    ELSE IF ~r.ok
    THEN IF r.err = "StreamError" THEN Fail(blk.pos, "FormatViolation", <<>>)
         ELSE Fail(blk.pos, r.err, r.subj)
    ELSE IF r.pos # blk.val.len THEN Fail(blk.pos, "FormatViolation", <<>>)
    ELSE Ok(blk.pos, [len |-> blk.val.len, body |-> r.val])

\* A registered schema's layout: the number of bytes its fields take.
SchemaLayout(name) == [k |-> "Bytes", n |-> fieldtypes[name]]

\* fields=Switch(find_charclass_for_type(type), fieldtypes, ErrorWithMessage)
FieldsSwitch(type_name, b, p) ==
    LET k == find_charclass_for_type(type_name, RecursionLimit) IN
    IF ~k.ok THEN Fail(p, k.err, k.subj)
    ELSE IF k.val \in DOMAIN fieldtypes
    THEN LET r == Bytes(SchemaLayout(k.val).n, b, p) IN
         IF ~r.ok THEN r ELSE Ok(r.pos, [schema |-> k.val, data |-> r.val])
    ELSE Fail(p, "Unknown component type", type_name)

\* Mutant: only one interned key is read.
FieldsStructOneKey(type_name, b, p) ==
    LET keys == Parse(Struct(<<PropertyEnum>>), b, p) IN
    IF ~keys.ok THEN keys
    ELSE LET f == FieldsSwitch(type_name, b, keys.pos) IN
         IF ~f.ok THEN f
         ELSE Ok(f.pos, [empty_string |-> keys.val[1], root |-> keys.val[1],
                         schema |-> f.val.schema, fields |-> f.val.data])

\* The Struct inside the field block: two interned keys, then the fields.
FieldsStruct(type_name, b, p) ==
    LET keys == Parse(Struct(<<PropertyEnum, PropertyEnum>>), b, p) IN
    IF ~keys.ok THEN keys
    ELSE LET f == FieldsSwitch(type_name, b, keys.pos) IN
         IF ~f.ok THEN f
         ELSE Ok(f.pos, [empty_string |-> keys.val[1], root |-> keys.val[2],
                         schema |-> f.val.schema, fields |-> f.val.data])

\* Mutant: the block's Struct is run on a block of length zero too.
ComponentFieldsNoZeroLen(type_name, b, p) ==
    LET blk == PrefixedBlock(b, p)
        r == FieldsStruct(type_name, blk.val.data, 0)
    IN IF ~blk.ok THEN blk
       ELSE IF ~r.ok THEN Fail(blk.pos, r.err, r.subj)
       ELSE Ok(blk.pos, [len |-> blk.val.len, body |-> r.val])

\* Component.fields
ComponentFields(type_name, b, p) ==
    LET blk == PrefixedBlock(b, p) IN
    PrefixedAllowZeroLen(blk, FieldsStruct(type_name, blk.val.data, 0))

\* One extra property: its type name, then a bool or a string.
ExtraValue ==
    TaggedValue(StrId, << <<S_bool, Flag>>, <<S_string, StrId>> >>,
                "Unknown argument type")

\* Mutant: the condition tests the wrong base.
ComponentExtraFieldsActorBase(type_name, b, p) ==
    LET c == is_child_of(type_name, S_CActorComponent) IN
    IF ~c.ok THEN Fail(p, c.err, c.subj)
    ELSE IF c.val
    THEN LET d == Parse(DictAdapter(make_vector(DictElement(StrId, ExtraValue))), b, p) IN
         IF ~d.ok THEN d ELSE Ok(d.pos, [present |-> TRUE, entries |-> d.val])
    ELSE Ok(p, [present |-> FALSE, entries |-> <<>>])

\* Component.extra_fields = If(is_child_of(type, "CComponent"), dict):
\* the map when the condition holds, else nothing is read and the value is
\* None.
ComponentExtraFields(type_name, b, p) ==
    LET c == is_child_of(type_name, S_CComponent) IN
    IF ~c.ok THEN Fail(p, c.err, c.subj)
    ELSE IF c.val
    THEN LET d == Parse(DictAdapter(make_vector(DictElement(StrId, ExtraValue))), b, p) IN
         IF ~d.ok THEN d ELSE Ok(d.pos, [present |-> TRUE, entries |-> d.val])
    ELSE Ok(p, [present |-> FALSE, entries |-> <<>>])

\* The dict key, Component.type and Component.unk_1.
ComponentId == Struct(<<StrId, StrId, Array(2, Int32ul)>>)

(***************************************************************************)
(* CCharClass, CActorDef, BMSAD                                            *)
(***************************************************************************)
\* CActorDef up to the component map: unk_1, unk_2, unk_3, sub_actors, unk_4.
CActorDefHead == Struct(<<Int16ul, Int32ul, Int16ul, PrefixedArray(StrId), StrId>>)

\* CCharClass up to the magic constant: model_name, unk_1, unk_2, unk_3,
\* sub_actors, unk_4.
CCharClassHead ==
    Struct(<<StrId, Int16ul, Int32ul, Int16ul, PrefixedArray(StrId), Array(9, Float32l)>>)

\* 0xFFFFFFFF and 0x0200000F
CharClassMagicValue == <<65535, 65535>>
VersionValue == <<512, 15>>

\* Mutant: the field is read and not compared.
CCharClassMagicLax == Int32ul
CCharClassMagic == Const(CharClassMagicValue, Int32ul)

\* CCharClass between the magic constant and the component map: unk_5,
\* unk_6, unk_7.
CCharClassMid == Struct(<<Byte, StrId, Byte>>)

Binaries == make_vector(StrId)
Sources == make_vector(Struct(<<StrId, Byte>>))

BmsadMagic == ConstBytes(S_MSAD)
\* Mutant: the version is read and not compared.
BmsadVersionLax == Int32ul
BmsadVersion == Const(VersionValue, Int32ul)

\* property_types: the body selected by the envelope's type, by its key.
property_types == {S_CCharClass, S_CActorDef}

PropertyBody(type_name) ==
    IF type_name \in property_types
    THEN Ret(IF type_name = S_CCharClass THEN "cc_head" ELSE "ad_head")
    ELSE Raise("Unknown property type", type_name)

\* Mutant: the end of the stream is not checked.
TerminatedLax(b, p) == Ok(p, <<>>)

\* construct.Terminated: the stream must be at its end.
Terminated(b, p) ==
    IF p = Len(b) THEN Ok(p, <<>>) ELSE Fail(p, "TerminatedError", <<>>)

(***************************************************************************)
(* The decoder as a process: BMSAD.parse walks its fields in order, the    *)
(* body's fields in order inside `property`, and each Component's fields   *)
(* in order inside the component map.                                      *)
(***************************************************************************)
NoComponent ==
    [ key |-> <<>>, type |-> <<>>, unk_1 |-> <<>>,
      fields |-> [len |-> 0, body |-> <<>>],
      extra_fields |-> [present |-> FALSE, entries |-> <<>>],
      functions |-> <<>>,
      dependencies |-> [key |-> None, layout |-> Pass, value |-> <<>>],
      off |-> [fields |-> 0, extra_fields |-> 0, functions |-> 0,
               dependencies |-> 0, end |-> 0] ]

NoContext ==
    [ read |-> <<>>, name |-> <<>>, type |-> <<>>, head |-> <<>>,
      todo |-> 0, comp |-> NoComponent, components |-> <<>>,
      binaries |-> <<>>, sources |-> <<>> ]

NoError == [kind |-> "", subj |-> <<>>, field |-> ""]

\* An exception leaves the parse: nothing decoded is returned.
Abort(r, field) ==
    /\ pc' = "failed"
    /\ pos' = r.pos
    /\ err' = [kind |-> r.err, subj |-> r.subj, field |-> field]
    /\ UNCHANGED <<hierarchy, fieldtypes, buf, ctx>>

\* A field decoded: the cursor moves on and the context gains the field.
Advance(r, next, c) ==
    /\ pc' = next
    /\ pos' = r.pos
    /\ ctx' = c
    /\ UNCHANGED <<hierarchy, fieldtypes, buf, err>>

Read(field) == Append(ctx.read, field)

ParseMagic ==
    /\ pc = "magic"
    /\ LET r == Parse(BmsadMagic, buf, pos) IN
       IF r.ok THEN Advance(r, "version", [ctx EXCEPT !.read = Read("magic")])
       ELSE Abort(r, "magic")

ParseVersion ==
    /\ pc = "version"
    /\ LET r == Parse(BmsadVersion, buf, pos) IN
       IF r.ok THEN Advance(r, "name", [ctx EXCEPT !.read = Read("version")])
       ELSE Abort(r, "version")

ParseName ==
    /\ pc = "name"
    /\ LET r == Parse(StrId, buf, pos) IN
       IF r.ok
       THEN Advance(r, "type", [ctx EXCEPT !.read = Read("name"), !.name = r.val])
       ELSE Abort(r, "name")

ParseType ==
    /\ pc = "type"
    /\ LET r == Parse(StrId, buf, pos) IN
       IF r.ok
       THEN Advance(r, "property", [ctx EXCEPT !.read = Read("type"), !.type = r.val])
       ELSE Abort(r, "type")

\* property=Switch(this.type, property_types, ErrorWithMessage(...))
SelectProperty ==
    /\ pc = "property"
    /\ LET k == PropertyBody(ctx.type) IN
       IF k.ok THEN Advance(Ok(pos, <<>>), k.val, ctx)
       ELSE Abort(Fail(pos, k.err, k.subj), "property")

ParseActorDefHead ==
    /\ pc = "ad_head"
    /\ LET r == Parse(CActorDefHead, buf, pos) IN
       IF r.ok
       THEN Advance(r, "components", [ctx EXCEPT !.read = Read("head"), !.head = r.val])
       ELSE Abort(r, "head")

ParseCharClassHead ==
    /\ pc = "cc_head"
    /\ LET r == Parse(CCharClassHead, buf, pos) IN
       IF r.ok
       THEN Advance(r, "cc_magic", [ctx EXCEPT !.read = Read("head"), !.head = r.val])
       ELSE Abort(r, "head")

ParseCharClassMagic ==
    /\ pc = "cc_magic"
    /\ LET r == Parse(CCharClassMagic, buf, pos) IN
       IF r.ok THEN Advance(r, "cc_mid", [ctx EXCEPT !.read = Read("cc_magic")])
       ELSE Abort(r, "cc_magic")

ParseCharClassMid ==
    /\ pc = "cc_mid"
    /\ LET r == Parse(CCharClassMid, buf, pos) IN
       IF r.ok THEN Advance(r, "components", [ctx EXCEPT !.read = Read("cc_mid")])
       ELSE Abort(r, "cc_mid")

\* The component map is complete: DictAdapter turns the elements into a map.
FinishComponents(p, elems, c) ==
    LET d == DictDecode(Ok(p, elems)) IN
    IF d.ok THEN Advance(d, "binaries", c) ELSE Abort(d, "components")

\* make_dict(Component): the element count.
ParseComponentCount ==
    /\ pc = "components"
    /\ LET r == Parse(Int32ul, buf, pos) IN
       IF ~r.ok THEN Abort(r, "components")
       ELSE LET c == [ctx EXCEPT !.read = Read("components"), !.todo = ToNat(r.val)] IN
            IF ToNat(r.val) = 0 THEN FinishComponents(r.pos, <<>>, c)
            ELSE Advance(r, "comp_id", c)

ParseComponentId ==
    /\ pc = "comp_id"
    /\ LET r == Parse(ComponentId, buf, pos) IN
       IF r.ok
       THEN Advance(r, "comp_fields",
                [ctx EXCEPT !.comp = [NoComponent EXCEPT
                     !.key = r.val[1], !.type = r.val[2], !.unk_1 = r.val[3],
                     !.off.fields = r.pos]])
       ELSE Abort(r, "type")

ParseComponentFields ==
    /\ pc = "comp_fields"
    /\ LET r == ComponentFields(ctx.comp.type, buf, pos) IN
       IF r.ok
       THEN Advance(r, "comp_extra",
                [ctx EXCEPT !.comp.fields = r.val, !.comp.off.extra_fields = r.pos])
       ELSE Abort(r, "fields")

ParseComponentExtraFields ==
    /\ pc = "comp_extra"
    /\ LET r == ComponentExtraFields(ctx.comp.type, buf, pos) IN
       IF r.ok
       THEN Advance(r, "comp_functions",
                [ctx EXCEPT !.comp.extra_fields = r.val, !.comp.off.functions = r.pos])
       ELSE Abort(r, "extra_fields")

ParseComponentFunctions ==
    /\ pc = "comp_functions"
    /\ LET r == Parse(Functions, buf, pos) IN
       IF r.ok
       THEN Advance(r, "comp_dependencies",
                [ctx EXCEPT !.comp.functions = r.val, !.comp.off.dependencies = r.pos])
       ELSE Abort(r, "functions")

ParseComponentDependencies ==
    /\ pc = "comp_dependencies"
    /\ LET r == Dependencies(ctx.comp.type, buf, pos) IN
       IF ~r.ok THEN Abort(r, "dependencies")
       ELSE LET done == [ctx.comp EXCEPT !.dependencies = r.val, !.off.end = r.pos]
                elems == Append(ctx.components, [key |-> done.key, value |-> done])
                c == [ctx EXCEPT !.comp = done, !.components = elems,
                                 !.todo = ctx.todo - 1]
            IN IF ctx.todo = 1 THEN FinishComponents(r.pos, elems, c)
               ELSE Advance(r, "comp_id", c)

ParseBinaries ==
    /\ pc = "binaries"
    /\ LET r == Parse(Binaries, buf, pos) IN
       IF r.ok
       THEN Advance(r, "sources", [ctx EXCEPT !.read = Read("binaries"), !.binaries = r.val])
       ELSE Abort(r, "binaries")

ParseSources ==
    /\ pc = "sources"
    /\ LET r == Parse(Sources, buf, pos) IN
       IF r.ok
       THEN Advance(r, "end", [ctx EXCEPT !.read = Read("sources"), !.sources = r.val])
       ELSE Abort(r, "sources")

\* _end=construct.Terminated
ParseEnd ==
    /\ pc = "end"
    /\ LET r == Terminated(buf, pos) IN
       IF r.ok THEN Advance(r, "done", [ctx EXCEPT !.read = Read("_end")])
       ELSE Abort(r, "_end")

Next ==
    \/ ParseMagic
    \/ ParseVersion
    \/ ParseName
    \/ ParseType
    \/ SelectProperty
    \/ ParseActorDefHead
    \/ ParseCharClassHead
    \/ ParseCharClassMagic
    \/ ParseCharClassMid
    \/ ParseComponentCount
    \/ ParseComponentId
    \/ ParseComponentFields
    \/ ParseComponentExtraFields
    \/ ParseComponentFunctions
    \/ ParseComponentDependencies
    \/ ParseBinaries
    \/ ParseSources
    \/ ParseEnd

(***************************************************************************)
(* Registries and inputs.  The registries are configuration data supplied  *)
(* per game version; the model draws them from synthetic families: a chain *)
(* CA -> CB -> CD -> top over the fixed component bases, and any subset of *)
(* the chain's schemas.                                                    *)
(***************************************************************************)
MaxTrailing == 1      \* bytes appended after a complete resource
MaxFieldBytes == 2    \* bytes a field block declares beyond its two keys

S_CA == Str(<<"C","A">>)
S_CB == Str(<<"C","B">>)
S_CD == Str(<<"C","D">>)
S_CU == Str(<<"C","U">>)    \* named as a parent, never registered
S_CX == Str(<<"C","X">>)    \* never registered

Candidate(type_name) == S_CCharClass \o DropFirst(type_name)

ListedBases == { component_dependencies[i][1] : i \in 1..Len(component_dependencies) }

\* The fixed bases: CComponent is a root, CActorComponent its child, and
\* the dependency-bearing bases below it, flat or with one of
\* CCollisionComponent / CGrabComponent under the other.
BaseEdges(arr) ==
    [ t \in {S_CComponent, S_CActorComponent} \cup ListedBases |->
        CASE t = S_CComponent -> None
          [] t = S_CActorComponent /\ arr = "actor_unparented" -> S_CU
          [] t = S_CActorComponent -> S_CComponent
          [] t = S_CCollisionComponent /\ arr = "collision_under_grab" -> S_CGrabComponent
          [] t = S_CGrabComponent /\ arr = "grab_under_collision" -> S_CCollisionComponent
          [] OTHER -> S_CActorComponent ]

Hierarchy(top, arr) ==
    (S_CA :> S_CB) @@ (S_CB :> S_CD) @@ (S_CD :> top) @@ BaseEdges(arr)

Tops ==
    { None, S_CU, S_CComponent, S_CActorComponent, S_CFXComponent,
      S_CStandaloneFXComponent, S_CCollisionComponent, S_CGrabComponent }

\* Among them a registry with a cycle, CA -> CB -> CD -> CA, and one where
\* CActorComponent names a parent that is not registered.
Hierarchies ==
    { Hierarchy(top, "flat") : top \in Tops \cup {S_CA} }
    \cup { Hierarchy(S_CActorComponent, "actor_unparented") }
    \cup { Hierarchy(top, arr) :
             top \in {S_CCollisionComponent, S_CGrabComponent},
             arr \in {"collision_under_grab", "grab_under_collision"} }

SchemaSize(name) ==
    CASE name = Candidate(S_CA) -> 1
      [] name = Candidate(S_CB) -> 2
      [] name = Candidate(S_CD) -> 0
      [] name = Candidate(S_CComponent) -> 0
      [] name = S_CActorComponentDef -> 1
      [] name = Candidate(S_CActorComponent) -> 2
      [] OTHER -> 0

ChainSchemas == { Candidate(S_CA), Candidate(S_CB), Candidate(S_CD) }
BaseSchemas == { Candidate(S_CComponent), S_CActorComponentDef }

SchemaTables ==
    { [n \in chain \cup base |-> SchemaSize(n)] :
        chain \in SUBSET ChainSchemas,
        base \in {{}, BaseSchemas, BaseSchemas \cup {Candidate(S_CActorComponent)}} }

DefaultHierarchy == Hierarchy(S_CActorComponent, "flat")
DefaultSchemas == [n \in ChainSchemas \cup BaseSchemas |-> SchemaSize(n)]

\* Encoders for the inputs.
EncInt(n, v) == [i \in 1..n |-> (v \div (256 ^ (i - 1))) % 256]
EncInt32ul(u) == << u[2] % 256, u[2] \div 256, u[1] % 256, u[1] \div 256 >>
CStr(s) == Append(s, 0)
Zeros(n) == [i \in 1..n |-> 0]

RECURSIVE Concat(_)
Concat(ss) == IF ss = <<>> THEN <<>> ELSE Head(ss) \o Concat(Tail(ss))

EncComponent(key, type_name, len, extra, deps) ==
    CStr(key) \o CStr(type_name) \o Zeros(8) \o EncInt(4, len) \o Zeros(len)
    \o extra \o EncInt(4, 0) \o deps

EncActorDef(comps) ==
    Zeros(8) \o EncInt(4, 0) \o CStr(<<>>)
    \o EncInt(4, Len(comps)) \o Concat(comps) \o EncInt(4, 0) \o EncInt(4, 0)

EncCharClass(magic, comps) ==
    CStr(<<>>) \o Zeros(8) \o EncInt(4, 0) \o Zeros(36) \o EncInt32ul(magic)
    \o <<0>> \o CStr(<<>>) \o <<0>>
    \o EncInt(4, Len(comps)) \o Concat(comps) \o EncInt(4, 0) \o EncInt(4, 0)

EncResource(magic, version, name, type_name, body, trailing) ==
    magic \o EncInt32ul(version) \o CStr(name) \o CStr(type_name) \o body
    \o Zeros(trailing)

MinimalActorDef == EncResource(S_MSAD, VersionValue, S_test, S_CActorDef, EncActorDef(<<>>), 0)

Prefixes(b) == { SubSeq(b, 1, n) : n \in 0..Len(b) }

EnvelopeTypes ==
    { S_CActorDef, S_CCharClass,
      Str(<<"A","c","t","o","r","D","e","f">>),
      Str(<<"C","h","a","r","C","l","a","s","s">>),
      Str(<<"c","a","c","t","o","r","d","e","f">>),
      Str(<<"C","A","c","t","o","r">>),
      Str(<<"C","A","c","t","o","r","D","e","f","X">>) }

EnvelopeInputs ==
    { EncResource(magic, version, S_test, t, body, trailing) :
        magic \in {S_MSAD, Str(<<"M","S","A","X">>)},
        version \in {VersionValue, <<512, 16>>},
        t \in EnvelopeTypes,
        body \in {EncActorDef(<<>>), EncCharClass(CharClassMagicValue, <<>>),
                  EncCharClass(<<0, 0>>, <<>>), EncCharClass(<<65535, 65534>>, <<>>),
                  EncCharClass(<<32767, 65535>>, <<>>)},
        trailing \in 0..MaxTrailing }
    \cup Prefixes(MinimalActorDef)

ComponentTypes == { S_CA, S_CD, S_CActorComponent, S_CComponent, S_CX }

ExtraChoices == { <<>>, EncInt(4, 0) }
DependencyChoices == { CStr(<<>>) \o EncInt(2, 0), EncInt(4, 0) }
FieldLengths == {0} \cup (16 .. 16 + MaxFieldBytes)

OneComponentInputs ==
    { EncResource(S_MSAD, VersionValue, S_test, S_CActorDef,
          EncActorDef(<<EncComponent(Str(<<"K">>), t, len, extra, <<>>)>>), 0) :
        t \in ComponentTypes, len \in FieldLengths, extra \in ExtraChoices }
    \cup
    { EncResource(S_MSAD, VersionValue, S_test, S_CActorDef,
          EncActorDef(<<EncComponent(Str(<<"K">>), t, 0, extra, deps)>>), 0) :
        t \in ComponentTypes, extra \in ExtraChoices, deps \in DependencyChoices }

TwoComponentInputs ==
    { EncResource(S_MSAD, VersionValue, S_test, S_CActorDef,
          EncActorDef(<< EncComponent(Str(<<"K">>), S_CActorComponent, 0, EncInt(4, 0), <<>>),
                         EncComponent(k, S_CActorComponent, 0, EncInt(4, 0), <<>>) >>), 0) :
        k \in {Str(<<"K">>), Str(<<"L">>)} }

\* Property maps and argument maps: entries with equal and with distinct
\* keys, known and unknown value types.
EncExtraEntry(key, type_name, value) == CStr(key) \o CStr(type_name) \o value

ExtraEntries ==
    { EncExtraEntry(Str(<<"P">>), S_bool, <<1>>),
      EncExtraEntry(Str(<<"Q">>), S_string, CStr(Str(<<"v">>))),
      EncExtraEntry(Str(<<"P">>), S_string, CStr(Str(<<"v">>))),
      EncExtraEntry(Str(<<"Q">>), Str(<<"i","n","t">>), <<>>) }

ExtraMaps ==
    { <<>> } \cup { <<e>> : e \in ExtraEntries }
    \cup { <<EncExtraEntry(Str(<<"P">>), S_bool, <<1>>), e>> : e \in ExtraEntries }

EncExtra(entries) == EncInt(4, Len(entries)) \o Concat(entries)

ArgKey(n) == [i \in 1..8 |-> n]
EncArgument(key, tagged) == key \o tagged[1] \o tagged[2]

\* <<discriminant, value bytes>>
ArgumentValues ==
    { <<Str(<<"s">>), CStr(Str(<<"v">>))>>, <<Str(<<"f">>), Zeros(4)>>,
      <<Str(<<"b">>), <<1>>>>, <<Str(<<"i">>), EncInt(4, 7)>>,
      <<Str(<<"x">>), <<>>>>, <<Str(<<"S">>), <<>>>>, <<<<0>>, <<>>>>, <<<<200>>, <<>>>> }

ParamMaps ==
    { <<>> } \cup { <<EncArgument(ArgKey(1), a)>> : a \in ArgumentValues }
    \cup { <<EncArgument(ArgKey(1), <<Str(<<"b">>), <<1>>>>), EncArgument(k, a)>> :
             k \in {ArgKey(1), ArgKey(2)},
             a \in { <<Str(<<"b">>), <<0>>>>, <<Str(<<"i">>), EncInt(4, 7)>>,
                      <<Str(<<"x">>), <<>>>> } }

EncFunction(name, params) ==
    CStr(name) \o EncInt(2, 0) \o EncInt(4, Len(params)) \o Concat(params)

FunctionTables ==
    { EncInt(4, 0) }
    \cup { EncInt(4, 1) \o EncFunction(Str(<<"f">>), m) : m \in ParamMaps }
    \cup { EncInt(4, 2) \o EncFunction(Str(<<"f">>), m)
                          \o EncFunction(Str(<<"g">>), <<EncArgument(ArgKey(1), a)>>) :
             m \in { <<EncArgument(ArgKey(1), <<Str(<<"b">>), <<1>>>>)>> },
             a \in { <<Str(<<"i">>), EncInt(4, 7)>>, <<Str(<<"x">>), <<>>>> } }

EncComponentMaps(key, type_name, extra, functions) ==
    CStr(key) \o CStr(type_name) \o Zeros(8) \o EncInt(4, 0) \o extra \o functions

MapInputs ==
    { EncResource(S_MSAD, VersionValue, S_test, S_CActorDef,
          EncActorDef(<<EncComponentMaps(Str(<<"K">>), S_CActorComponent,
                                         EncExtra(x), f)>>), 0) :
        x \in ExtraMaps, f \in FunctionTables }

Init ==
    /\ pos = 0
    /\ pc = "magic"
    /\ ctx = NoContext
    /\ err = NoError
    /\ \/ /\ hierarchy = DefaultHierarchy
          /\ fieldtypes = DefaultSchemas
          /\ buf \in EnvelopeInputs \cup TwoComponentInputs \cup MapInputs
       \/ /\ hierarchy \in Hierarchies
          /\ fieldtypes \in SchemaTables
          /\ buf \in OneComponentInputs

Spec == Init /\ [][Next]_vars

(***************************************************************************)
(* Vocabulary of the properties, stated apart from the decoder's own       *)
(* definitions.                                                            *)
(***************************************************************************)
WasRead(field) == \E i \in 1..Len(ctx.read) : ctx.read[i] = field

\* T, parent_of(T), parent_of(parent_of(T)), ... as far as the registry goes.
\* On a cycle the chain ends where it would come back to a type it holds.
RECURSIVE ChainFrom(_, _)
ChainFrom(t, seen) ==
    IF t = None \/ (\E i \in 1..Len(seen) : seen[i] = t) THEN seen
    ELSE IF t \in DOMAIN hierarchy THEN ChainFrom(hierarchy[t], Append(seen, t))
    ELSE Append(seen, t)

AncestorChain(t) == ChainFrom(t, <<>>)

Reaches(t, base) == \E i \in 1..Len(AncestorChain(t)) : AncestorChain(t)[i] = base

SchemaNameOf(t) == Str(<<"C","C","h","a","r","C","l","a","s","s">>) \o DropFirst(t)

Registered(t) == SchemaNameOf(t) \in DOMAIN fieldtypes

\* Components whose field block / extra map / dependency payload has been
\* decoded in this state.
Finished == { ctx.components[i].value : i \in 1..Len(ctx.components) }
WithFields ==
    Finished \cup
    (IF pc \in {"comp_extra", "comp_functions", "comp_dependencies"} THEN {ctx.comp} ELSE {})
WithExtra ==
    Finished \cup
    (IF pc \in {"comp_functions", "comp_dependencies"} THEN {ctx.comp} ELSE {})

\* The four bytes of a length or count prefix at offset q.
PrefixAt(q) == SubSeq(buf, q + 1, q + 4)
PrefixValue(q) ==
    PrefixAt(q)[1] + 256 * PrefixAt(q)[2] + 65536 * PrefixAt(q)[3]
    + 16777216 * (PrefixAt(q)[4] % 128)

T_ActorDef == Str(<<"A","c","t","o","r","D","e","f">>)
T_CharClass == Str(<<"C","h","a","r","C","l","a","s","s">>)
T_CActorDef == Str(<<"C","A","c","t","o","r","D","e","f">>)
T_CCharClass == Str(<<"C","C","h","a","r","C","l","a","s","s">>)

(***************************************************************************)
(* C1.  A decode succeeds only with the read cursor exactly at the end of  *)
(* the buffer: a complete resource followed by trailing bytes never        *)
(* reaches "done", and the end check is the only way to fail there.        *)
(***************************************************************************)
C1_FullConsumption ==
    /\ pc = "done" => pos = Len(buf) /\ WasRead("_end")
    /\ pc = "failed" /\ err.field = "_end" =>
           pos < Len(buf) /\ err.kind = "TerminatedError" /\ ~WasRead("_end")

C1_Witness ==
    /\ pc = "failed"
    /\ err.kind = "TerminatedError"
    /\ WasRead("sources")
    /\ pos = Len(buf) - 1

(***************************************************************************)
(* C2.  When the first four bytes are not "MSAD" or the next four are not  *)
(* 0x0200000F little-endian, the decode never gets past the magic and the  *)
(* version: it fails there, with the name, the type and the body unread.   *)
(***************************************************************************)
HeaderOk ==
    /\ Len(buf) >= 8
    /\ SubSeq(buf, 1, 4) = <<77, 83, 65, 68>>
    /\ SubSeq(buf, 5, 8) = <<15, 0, 0, 2>>

C2_MagicVersionGate ==
    ~HeaderOk =>
        /\ pc \in {"magic", "version", "failed"}
        /\ pos <= 8
        /\ ~WasRead("version") /\ ~WasRead("name") /\ ~WasRead("type") /\ ~WasRead("head")
        /\ ctx.name = <<>> /\ ctx.type = <<>>
        /\ pc = "failed" =>
               /\ err.field \in {"magic", "version"}
               /\ err.kind \in {"ConstError", "StreamError"}

C2_Witness ==
    /\ pc = "failed"
    /\ err.field = "version"
    /\ err.kind = "ConstError"
    /\ SubSeq(buf, 1, 4) = <<77, 83, 65, 68>>
    /\ SubSeq(buf, 5, 8) = <<16, 0, 0, 2>>
    /\ pos = 8

(***************************************************************************)
(* C3.  As claimed: the body is selected by exact match against the two    *)
(* names CharClass and ActorDef, every other type name fails.              *)
(***************************************************************************)
C3_Original ==
    /\ pc \in {"ad_head", "cc_head"} => ctx.type \in {T_CharClass, T_ActorDef}
    /\ pc = "failed" /\ err.field = "property" => ctx.type \notin {T_CharClass, T_ActorDef}

(***************************************************************************)
(* C3, what the code does instead.  property_types is keyed by CCharClass *)
(* and CActorDef: the body is selected by exact match against these two    *)
(* names, and every other type name, ActorDef and CharClass included,      *)
(* fails with the unknown-property-type error with no part of the body     *)
(* read.                                                                   *)
(***************************************************************************)
C3_ExactTypeTable ==
    /\ pc = "ad_head" => ctx.type = T_CActorDef
    /\ pc = "cc_head" => ctx.type = T_CCharClass
    /\ WasRead("head") => ctx.type \in {T_CCharClass, T_CActorDef}
    /\ WasRead("type") /\ ctx.type \notin {T_CCharClass, T_CActorDef} =>
           /\ pc \in {"property", "failed"}
           /\ pos = 8 + Len(ctx.name) + 1 + Len(ctx.type) + 1
           /\ pc = "failed" =>
                  /\ err.kind = "Unknown property type"
                  /\ err.subj = ctx.type
                  /\ err.field = "property"
    /\ pc = "failed" /\ err.field = "property" => ctx.type \notin {T_CCharClass, T_CActorDef}

C3_Witness ==
    /\ pc = "failed"
    /\ err.kind = "Unknown property type"
    /\ ctx.type = T_ActorDef
    /\ ~WasRead("head")

(***************************************************************************)
(* C4.  As claimed: the minimal resource with type "ActorDef" decodes to   *)
(* an ActorDef with every collection empty.                                *)
(***************************************************************************)
MinimalBody == [i \in 1..25 |-> 0]
MinimalResource(type_name) ==
    <<77, 83, 65, 68>> \o <<15, 0, 0, 2>> \o <<116, 101, 115, 116, 0>>
    \o type_name \o <<0>> \o MinimalBody

C4_Original ==
    buf = MinimalResource(T_ActorDef) => pc # "failed"

(***************************************************************************)
(* C4, what the code does instead.  The minimal resource decodes only     *)
(* under the type name CActorDef, the key of property_types: then it ends  *)
(* decoded with every collection empty and no byte left over, and with one *)
(* more byte appended it fails at the end check.                           *)
(***************************************************************************)
C4_MinimalResource ==
    /\ buf = MinimalResource(T_CActorDef) =>
           /\ pc # "failed"
           /\ pc = "done" =>
                  /\ pos = Len(buf)
                  /\ ctx.name = <<116, 101, 115, 116>>
                  /\ ctx.type = T_CActorDef
                  /\ ctx.head[4] = <<>>
                  /\ ctx.components = <<>>
                  /\ ctx.binaries = <<>>
                  /\ ctx.sources = <<>>
    /\ buf = MinimalResource(T_CActorDef) \o <<0>> =>
           /\ pc # "done"
           /\ pc = "failed" =>
                  /\ err.kind = "TerminatedError"
                  /\ pos = Len(buf) - 1

C4_Witness ==
    /\ buf = MinimalResource(T_CActorDef)
    /\ pc = "done"
    /\ ctx.components = <<>>
    /\ pos = Len(buf)

(***************************************************************************)
(* C5.  As claimed: for a type other than CActorComponent, a schema        *)
(* resolution that succeeds returns the candidate name of the first type   *)
(* on the ancestor chain whose candidate name is registered.               *)
(***************************************************************************)
ResolvableTypes == (DOMAIN hierarchy \cup {S_CX, S_CU}) \ {S_CActorComponent}

FirstRegistered(ch) ==
    CHOOSE i \in 1..Len(ch) : Registered(ch[i]) /\ \A j \in 1..(i - 1) : ~Registered(ch[j])

NearestRegistered(t) ==
    LET ch == AncestorChain(t) IN
    IF \E i \in 1..Len(ch) : Registered(ch[i])
    THEN <<SchemaNameOf(ch[FirstRegistered(ch)])>>
    ELSE <<>>

C5_Original ==
    \A c \in WithFields :
        c.fields.len # 0 /\ c.type # S_CActorComponent =>
            <<c.fields.body.schema>> = NearestRegistered(c.type)

(***************************************************************************)
(* C5, amended.  For a type other than CActorComponent, a schema           *)
(* resolution that succeeds stops at the first type on the ancestor chain  *)
(* that is CActorComponent or has a registered candidate name: it returns  *)
(* CActorComponentDef in the first case and that type's candidate name in  *)
(* the second.  With only the grandparent's schema registered and no       *)
(* CActorComponent below it, the grandparent's schema is returned.         *)
(***************************************************************************)
Stops(t) == t = S_CActorComponent \/ Registered(t)

FirstStop(ch) ==
    CHOOSE i \in 1..Len(ch) : Stops(ch[i]) /\ \A j \in 1..(i - 1) : ~Stops(ch[j])

\* The resolved name as a one-element sequence, empty when the chain has
\* no stop.
ResolvedSchema(t) ==
    LET ch == AncestorChain(t) IN
    IF \E i \in 1..Len(ch) : Stops(ch[i])
    THEN IF ch[FirstStop(ch)] = S_CActorComponent
         THEN <<Str(<<"C","A","c","t","o","r","C","o","m","p","o","n","e","n","t","D","e","f">>)>>
         ELSE <<SchemaNameOf(ch[FirstStop(ch)])>>
    ELSE <<>>

C5_NearestSchema ==
    /\ pc = "comp_fields" =>
           \A t \in ResolvableTypes :
               LET r == find_charclass_for_type(t, RecursionLimit) IN
               /\ r.ok => <<r.val>> = ResolvedSchema(t)
               /\ ResolvedSchema(t) # <<>> => r.ok
    /\ \A c \in WithFields :
           c.fields.len # 0 /\ c.type # S_CActorComponent =>
               <<c.fields.body.schema>> = ResolvedSchema(c.type)

\* T = CA decoded with the schema of its grandparent CD, the only one
\* registered on the chain.
C5_Witness ==
    /\ pc = "done"
    /\ Len(ctx.components) = 1
    /\ ctx.components[1].value.type = S_CA
    /\ ctx.components[1].value.fields.len # 0
    /\ ctx.components[1].value.fields.body.schema = SchemaNameOf(S_CD)
    /\ ~Registered(S_CA) /\ ~Registered(S_CB) /\ Registered(S_CD)

(***************************************************************************)
(* C6.  As claimed: when the ascent exhausts the ancestor chain without a  *)
(* schema, the decode fails with the unknown-component-type error that     *)
(* reports the type of the component, never an ancestor.                   *)
(***************************************************************************)
C6_ReportsRequestedType ==
    /\ pc = "failed"
    /\ err.field = "fields"
    /\ err.kind \notin {"FormatViolation", "StreamError"}
    /\ ResolvedSchema(ctx.comp.type) = <<>>
    => /\ err.kind = "Unknown component type"
       /\ err.subj = ctx.comp.type

(***************************************************************************)
(* C7.  A decoded Component has its extra map present exactly when its     *)
(* type is CComponent or reaches it through parent edges.  An absent map   *)
(* is None and took no bytes; a present map with a zero count is empty and *)
(* took the four bytes of the count.                                       *)
(***************************************************************************)
C7_ExtraIffComponent ==
    \A c \in WithExtra :
        /\ c.extra_fields.present <=> Reaches(c.type, Str(<<"C","C","o","m","p","o","n","e","n","t">>))
        /\ ~c.extra_fields.present =>
               /\ c.off.functions = c.off.extra_fields
               /\ c.extra_fields.entries = <<>>
        /\ c.extra_fields.present /\ PrefixAt(c.off.extra_fields) = <<0, 0, 0, 0>> =>
               /\ c.off.functions = c.off.extra_fields + 4
               /\ c.extra_fields.entries = <<>>

\* A registered type unrelated to CComponent, decoded to the end.
C7_Witness ==
    /\ pc = "done"
    /\ Len(ctx.components) = 1
    /\ ctx.components[1].value.type \in DOMAIN hierarchy
    /\ ~Reaches(ctx.components[1].value.type, S_CComponent)
    /\ ~ctx.components[1].value.extra_fields.present

(***************************************************************************)
(* C8.  The dependency payload of a decoded Component is laid out as the   *)
(* first base, in the order CFXComponent, CCollisionComponent,             *)
(* CGrabComponent, CBillboardComponent, CSwarmControllerComponent,         *)
(* CStandaloneFXComponent, that the type is or descends from, also when a  *)
(* later listed base is an ancestor of that one; when the type descends    *)
(* from none, the payload is empty, takes no bytes and is no error.        *)
(***************************************************************************)
ListedOrder ==
    << Str(<<"C","F","X","C","o","m","p","o","n","e","n","t">>),
       Str(<<"C","C","o","l","l","i","s","i","o","n","C","o","m","p","o","n","e","n","t">>),
       Str(<<"C","G","r","a","b","C","o","m","p","o","n","e","n","t">>),
       Str(<<"C","B","i","l","l","b","o","a","r","d","C","o","m","p","o","n","e","n","t">>),
       Str(<<"C","S","w","a","r","m","C","o","n","t","r","o","l","l","e","r",
             "C","o","m","p","o","n","e","n","t">>),
       Str(<<"C","S","t","a","n","d","a","l","o","n","e","F","X",
             "C","o","m","p","o","n","e","n","t">>) >>

ListedLayouts ==
    <<FXLayout, CollisionLayout, GrabLayout, BillboardLayout, SwarmLayout, FXLayout>>

Matches(t) == { i \in 1..Len(ListedOrder) : Reaches(t, ListedOrder[i]) }

FirstMatch(t) == CHOOSE i \in Matches(t) : \A j \in Matches(t) : i <= j

C8_FirstMatchDispatch ==
    /\ \A c \in Finished :
           IF Matches(c.type) = {}
           THEN /\ c.dependencies.key = None
                /\ c.dependencies.layout = Pass
                /\ c.dependencies.value = <<>>
                /\ c.off.end = c.off.dependencies
           ELSE /\ c.dependencies.key = ListedOrder[FirstMatch(c.type)]
                /\ c.dependencies.layout = ListedLayouts[FirstMatch(c.type)]
    /\ pc = "failed" /\ err.field = "dependencies" /\ ctx.comp.type \in DOMAIN hierarchy =>
           Matches(ctx.comp.type) # {}

\* CCollisionComponent is listed before its ancestor CGrabComponent; a
\* descendant of both is decoded with the collision layout.
C8_Witness ==
    /\ pc = "done"
    /\ Len(ctx.components) = 1
    /\ hierarchy[S_CCollisionComponent] = S_CGrabComponent
    /\ ctx.components[1].value.type \notin ListedBases
    /\ Reaches(ctx.components[1].value.type, S_CCollisionComponent)
    /\ Reaches(ctx.components[1].value.type, S_CGrabComponent)
    /\ ctx.components[1].value.dependencies.key = S_CCollisionComponent
    /\ ctx.components[1].value.dependencies.layout = CollisionLayout

(***************************************************************************)
(* C9.  A field block that declares a nonzero length L decodes only when   *)
(* the two interned keys and the resolved schema's fields take exactly L   *)
(* bytes, and the next field starts right after the block.  When the block *)
(* is there and the schema resolves, the block fails exactly when its      *)
(* contents take fewer or more than L bytes, with a framing violation and  *)
(* the cursor at the end of the block.                                     *)
(***************************************************************************)
\* Two interned keys of 8 bytes each, then the schema's fields.
BlockSize(schema) == 16 + fieldtypes[schema]

ContentSize(t) == BlockSize(ResolvedSchema(t)[1])

BlockThere(q) == q + 4 + PrefixValue(q) <= Len(buf) /\ PrefixAt(q)[4] < 128

ZeroPrefix(q) == q + 4 <= Len(buf) /\ PrefixAt(q) = <<0, 0, 0, 0>>

C10_ZeroLengthBlock ==
    /\ \A c \in WithFields :
           ZeroPrefix(c.off.fields) =>
               /\ c.fields.len = 0
               /\ c.fields.body = <<>>
               /\ c.off.extra_fields = c.off.fields + 4
    /\ pc = "failed" /\ err.field = "fields" => ~ZeroPrefix(ctx.comp.off.fields)

\* An unregistered type, for which resolution fails, with an empty block.
C10_Witness ==
    /\ pc = "comp_extra"
    /\ ZeroPrefix(ctx.comp.off.fields)
    /\ ~find_charclass_for_type(ctx.comp.type, RecursionLimit).ok
    /\ ResolvedSchema(ctx.comp.type) = <<>>
    /\ ctx.comp.fields.len = 0
    /\ pos = ctx.comp.off.fields + 4

(***************************************************************************)
(* C11.  A key met twice is fatal in the component map, in a component's   *)
(* extra property map and in a function's argument map: the decode fails   *)
(* with a duplicate-key error naming the key, and a decoded map holds      *)
(* every entry of the stream, each under a key of its own.                 *)
(***************************************************************************)
DistinctKeys(m) == \A i, j \in 1..Len(m) : i # j => m[i].key # m[j].key

Twice(m, key) == \E i, j \in 1..Len(m) : i < j /\ m[i].key = key /\ m[j].key = key

WithFunctions ==
    Finished \cup (IF pc = "comp_dependencies" THEN {ctx.comp} ELSE {})

\* The entries as the stream stores them, before they are turned into maps.
StoredExtra(q) == Parse(make_vector(DictElement(StrId, ExtraValue)), buf, q)
StoredFunctions(q) ==
    Parse(make_vector(Struct(<<StrId, Int16ul,
              make_vector(DictElement(PropertyEnum, FunctionArgument))>>)), buf, q)

C11_DuplicateKeysFatal ==
    /\ pc \in {"binaries", "sources", "end", "done"} => DistinctKeys(ctx.components)
    /\ \A c \in WithExtra :
           c.extra_fields.present =>
               /\ DistinctKeys(c.extra_fields.entries)
               /\ Len(c.extra_fields.entries) = PrefixValue(c.off.extra_fields)
    /\ \A c \in WithFunctions :
           /\ Len(c.functions) = PrefixValue(c.off.functions)
           /\ c.functions = StoredFunctions(c.off.functions).val
           /\ \A i \in 1..Len(c.functions) : DistinctKeys(c.functions[i][3])
    /\ pc = "failed" /\ err.field = "components" /\ err.kind = "DuplicateKeyError"
           => Twice(Append(ctx.components, [key |-> ctx.comp.key]), err.subj)
    /\ pc = "failed" /\ err.field = "extra_fields"
       /\ Reaches(ctx.comp.type, S_CComponent)
       /\ StoredExtra(ctx.comp.off.extra_fields).ok
           => /\ err.kind = "DuplicateKeyError"
              /\ Twice(StoredExtra(ctx.comp.off.extra_fields).val, err.subj)
    /\ pc = "failed" /\ err.field = "functions"
       /\ StoredFunctions(ctx.comp.off.functions).ok
           => /\ err.kind = "DuplicateKeyError"
              /\ \E i \in 1..Len(StoredFunctions(ctx.comp.off.functions).val) :
                     Twice(StoredFunctions(ctx.comp.off.functions).val[i][3], err.subj)

\* Two arguments of one function under the same key.
C11_Witness ==
    /\ pc = "failed"
    /\ err.field = "functions"
    /\ err.kind = "DuplicateKeyError"
    /\ err.subj = ArgKey(1)
    /\ StoredFunctions(ctx.comp.off.functions).ok

(***************************************************************************)
(* C12.  A function argument is decoded from a one-character discriminant: *)
(* every decoded argument has discriminant s, f, b or i, and the failure   *)
(* on any other character reports both that character and the key of the   *)
(* argument being decoded.                                                 *)
(***************************************************************************)
Discriminants == { Str(<<"s">>), Str(<<"f">>), Str(<<"b">>), Str(<<"i">>) }

\* The report names s: s occurs in the values the message is made from.
Mentions(s) ==
    \E i \in 0..(Len(err.subj) - Len(s)) : SubSeq(err.subj, i + 1, i + Len(s)) = s

\* At the failure the cursor is right after the discriminant, which follows
\* the argument's 8-byte key.
FailedDiscriminant == SubSeq(buf, pos, pos)
FailedArgumentKey == SubSeq(buf, pos - 8, pos - 1)

C12_AcceptedDiscriminants ==
    /\ \A c \in WithFunctions :
           \A i \in 1..Len(c.functions) :
               \A j \in 1..Len(c.functions[i][3]) :
                   c.functions[i][3][j].value.type \in Discriminants
    /\ pc = "failed" /\ err.field = "functions" /\ err.kind = "Unknown argument type"
           => /\ FailedDiscriminant \notin Discriminants
              /\ Mentions(FailedDiscriminant) \/ FailedDiscriminant = <<0>>

C12_ReportsDiscriminantAndKey ==
    /\ C12_AcceptedDiscriminants
    /\ pc = "failed" /\ err.field = "functions" /\ err.kind = "Unknown argument type"
       /\ FailedDiscriminant # <<0>>
           => Mentions(FailedDiscriminant) /\ Mentions(FailedArgumentKey)

(***************************************************************************)
(* C13.  In a CCharClass body the magic constant gates everything after    *)
(* it: when the four bytes of the field are not FF FF FF FF the decode     *)
(* fails at the field, the cursor stays within the field, and unk_5,       *)
(* unk_6, unk_7, the component map, binaries and sources are not read.     *)
(***************************************************************************)
MagicBytes == <<255, 255, 255, 255>>

MagicAt(q) == q + 4 <= Len(buf) /\ PrefixAt(q) = MagicBytes

AfterMagic == {"cc_mid", "components", "binaries", "sources"}

C13_CharClassMagicGate ==
    /\ [](pc = "failed" /\ err.field = "cc_magic" =>
              /\ \A f \in AfterMagic : ~WasRead(f)
              /\ ctx.components = <<>> /\ ctx.binaries = <<>> /\ ctx.sources = <<>>)
    /\ [](WasRead("cc_mid") => WasRead("cc_magic"))
    /\ [][pc = "cc_magic" =>
              IF MagicAt(pos)
              THEN pc' = "cc_mid" /\ pos' = pos + 4
              ELSE /\ pc' = "failed"
                   /\ err'.field = "cc_magic"
                   /\ pos' <= pos + 4
                   /\ ctx' = ctx]_vars

\* A magic field that differs from the constant in one bit only.
C13_Witness ==
    /\ pc = "failed"
    /\ err.field = "cc_magic"
    /\ err.kind = "ConstError"
    /\ ctx.type = S_CCharClass
    /\ WasRead("head")
    /\ SubSeq(buf, pos - 3, pos) = <<254, 255, 255, 255>>
    /\ pos + 3 <= Len(buf)

(***************************************************************************)
(* C14.  As claimed: the ascent of schema resolution is bounded by the     *)
(* resolution itself.  For every registry, one with a cycle of parent      *)
(* edges and no registered schema on it included, resolving a component's  *)
(* type ends with a schema name or with an unknown-type failure, and never *)
(* by running the ascent until the interpreter's stack is used up.         *)
(***************************************************************************)
OnCycle(t) ==
    /\ t \in DOMAIN hierarchy
    /\ LET ch == AncestorChain(t) IN
       /\ ch[Len(ch)] \in DOMAIN hierarchy
       /\ \E i \in 1..Len(ch) : ch[i] = hierarchy[ch[Len(ch)]]

AscentOutcomes == { "Unknown component type", "UnknownTypeError" }

C14_BoundedAscent ==
    pc = "failed" /\ err.field = "fields" /\ OnCycle(ctx.comp.type)
    /\ BlockThere(ctx.comp.off.fields)
    /\ PrefixValue(ctx.comp.off.fields) >= 16
        => err.kind \in AscentOutcomes \cup {"FormatViolation"}

(***************************************************************************)
(* C15.  CActorComponent resolves to CActorComponentDef directly: whether  *)
(* or not its own candidate name is registered, whatever the schema        *)
(* registry holds, and whether or not its parent is registered.  So a type *)
(* whose ancestor chain reaches CActorComponent always resolves, and its   *)
(* field block never fails with an error of the ascent.                    *)
(***************************************************************************)
S_Def == Str(<<"C","A","c","t","o","r","C","o","m","p","o","n","e","n","t","D","e","f">>)
S_Root == Str(<<"C","A","c","t","o","r","C","o","m","p","o","n","e","n","t">>)

AscentErrors == { "UnknownTypeError", "TypeError", "RecursionError" }

C15_RootSpecialCase ==
    /\ pc = "comp_fields" =>
           /\ find_charclass_for_type(S_Root, RecursionLimit).ok
           /\ find_charclass_for_type(S_Root, RecursionLimit).val = S_Def
           /\ \A t \in DOMAIN hierarchy :
                  Reaches(t, S_Root) => find_charclass_for_type(t, RecursionLimit).ok
    /\ \A c \in WithFields :
           c.type = S_Root /\ c.fields.len # 0 => c.fields.body.schema = S_Def
    /\ pc = "failed" /\ err.field = "fields" /\ Reaches(ctx.comp.type, S_Root)
           => err.kind \notin AscentErrors

\* CActorComponent decoded with CActorComponentDef although its own
\* candidate name is registered too.
C15_Witness ==
    /\ pc = "comp_extra"
    /\ ctx.comp.type = S_Root
    /\ ctx.comp.fields.len # 0
    /\ ctx.comp.fields.body.schema = S_Def
    /\ SchemaNameOf(S_Root) \in DOMAIN fieldtypes
    /\ fieldtypes[SchemaNameOf(S_Root)] # fieldtypes[S_Def]

\* The same where the parent CActorComponent names is not registered.
C15_WitnessUnparented ==
    /\ pc = "comp_extra"
    /\ ctx.comp.type = S_Root
    /\ ctx.comp.fields.len # 0
    /\ ctx.comp.fields.body.schema = S_Def
    /\ hierarchy[S_Root] \notin DOMAIN hierarchy
    /\ hierarchy[S_Root] # None
====
